---- MODULE Spec2Model ----
(***************************************************************************)
(* A model of iso-git: the deno-node fs shim (dn-fs.ts) over a small       *)
(* POSIX-like file tree, the chunk collection utilities (collect,          *)
(* forAwait, getIterator, fromValue), and the http request (http.ts).      *)
(*                                                                         *)
(* JavaScript values are encoded as follows.                               *)
(*   - a string is the sequence of its UTF-16 code units;                  *)
(*   - a Uint8Array / ArrayBuffer is the sequence of its bytes;            *)
(*   - an optional value (Date | null, a missing property) is a sequence   *)
(*     of length 0 (absent) or 1 (present);                                *)
(*   - an option of an options object is "absent" when the object has no   *)
(*     such key, "undefined" when the key is there with value undefined.   *)
(***************************************************************************)
EXTENDS Integers, Sequences, FiniteSets, TLC

\* Longest data argument (in bytes or in code units) handed to writeFile.
MaxLen == 1

\* Byte values the binary data arguments are drawn from: 0xFF, which no valid
\* UTF-8 sequence contains.
ByteVals == {255}

\* UTF-16 code units the string arguments are drawn from: U+00E9, two bytes
\* in UTF-8.
CharVals == {233}

\* The paths the calls name.  The root directory "/" always exists.
Paths == {"/a", "/a/b", "/c"}

\* Paths no other path of Paths lies under.
LeafPaths == {"/a/b", "/c"}

Parent(p) == IF p = "/a/b" THEN "/a" ELSE "/"

BaseName(p) == CASE p = "/a/b" -> "b" [] p = "/a" -> "a" [] OTHER -> "c"

RECURSIVE SeqsUpTo(_, _)
SeqsUpTo(S, n) ==
  IF n = 0 THEN {<<>>}
  ELSE LET shorter == SeqsUpTo(S, n - 1)
       IN  shorter \cup {Append(s, x) : s \in {t \in shorter : Len(t) = n - 1}, x \in S}

Some(x) == <<x>>

None == <<>>

IsSome(o) == Len(o) = 1

----------------------------------------------------------------------------
(* TextEncoder / TextDecoder (UTF-8, as the platform implements them)       *)

ReplacementChar == 65533

IsHighSurrogate(u) == u \in 55296..56319

IsLowSurrogate(u) == u \in 56320..57343

\* The UTF-8 bytes of one Unicode scalar value.
EncodeCodePoint(cp) ==
  IF cp < 128 THEN <<cp>>
  ELSE IF cp < 2048 THEN <<192 + (cp \div 64), 128 + (cp % 64)>>
  ELSE IF cp < 65536
    THEN <<224 + (cp \div 4096), 128 + ((cp \div 64) % 64), 128 + (cp % 64)>>
  ELSE <<240 + (cp \div 262144), 128 + ((cp \div 4096) % 64),
         128 + ((cp \div 64) % 64), 128 + (cp % 64)>>

\* new TextEncoder().encode(s): a surrogate pair is one scalar value, a lone
\* surrogate is replaced by U+FFFD.
RECURSIVE EncodeFrom(_, _)
EncodeFrom(s, i) ==
  IF i > Len(s) THEN <<>>
  ELSE IF IsHighSurrogate(s[i]) /\ i < Len(s) /\ IsLowSurrogate(s[i + 1])
    THEN EncodeCodePoint(65536 + (s[i] - 55296) * 1024 + (s[i + 1] - 56320))
         \o EncodeFrom(s, i + 2)
  ELSE IF IsHighSurrogate(s[i]) \/ IsLowSurrogate(s[i])
    THEN EncodeCodePoint(ReplacementChar) \o EncodeFrom(s, i + 1)
  ELSE EncodeCodePoint(s[i]) \o EncodeFrom(s, i + 1)

TextEncode(s) == EncodeFrom(s, 1)

\* The UTF-16 code units of one decoded scalar value.
CodeUnits(cp) ==
  IF cp < 65536 THEN <<cp>>
  ELSE <<55296 + ((cp - 65536) \div 1024), 56320 + ((cp - 65536) % 1024)>>

\* The UTF-8 decoder with replacement: cp is the code point being built, need
\* the number of continuation bytes still expected, lo..hi the range the next
\* continuation byte must lie in.  A byte that cannot continue a sequence ends
\* it with U+FFFD and is then decoded again as a first byte.
RECURSIVE DecodeFrom(_, _, _, _, _, _)
DecodeFrom(b, i, cp, need, lo, hi) ==
  IF i > Len(b) THEN (IF need > 0 THEN <<ReplacementChar>> ELSE <<>>)
  ELSE LET x == b[i] IN
    IF need = 0 THEN
      IF x < 128 THEN <<x>> \o DecodeFrom(b, i + 1, 0, 0, 128, 191)
      ELSE IF x \in 194..223 THEN DecodeFrom(b, i + 1, x - 192, 1, 128, 191)
      ELSE IF x \in 224..239
        THEN DecodeFrom(b, i + 1, x - 224, 2,
                        IF x = 224 THEN 160 ELSE 128, IF x = 237 THEN 159 ELSE 191)
      ELSE IF x \in 240..244
        THEN DecodeFrom(b, i + 1, x - 240, 3,
                        IF x = 240 THEN 144 ELSE 128, IF x = 244 THEN 143 ELSE 191)
      ELSE <<ReplacementChar>> \o DecodeFrom(b, i + 1, 0, 0, 128, 191)
    ELSE IF x \notin lo..hi
      THEN <<ReplacementChar>> \o DecodeFrom(b, i, 0, 0, 128, 191)
    ELSE IF need = 1
      THEN CodeUnits(cp * 64 + (x - 128)) \o DecodeFrom(b, i + 1, 0, 0, 128, 191)
    ELSE DecodeFrom(b, i + 1, cp * 64 + (x - 128), need - 1, 128, 191)

\* new TextDecoder().decode(b): a leading byte order mark is dropped.
TextDecode(b) ==
  LET units == DecodeFrom(b, 1, 0, 0, 128, 191)
  IN  IF Len(units) > 0 /\ units[1] = 65279 THEN Tail(units) ELSE units

----------------------------------------------------------------------------
(* The host file tree and the platform file operations of Deno, with       *)
(* POSIX semantics.  Symbolic links live at leaf paths and hold absolute    *)
(* targets, so following one stays within Paths.                            *)

NoNode == [kind |-> "none", data |-> <<>>, to |-> ""]

DirNode == [kind |-> "dir", data |-> <<>>, to |-> ""]

FileNode(bytes) == [kind |-> "file", data |-> bytes, to |-> ""]

LinkNode(target) == [kind |-> "link", data |-> <<>>, to |-> target]

Children(p) == {q \in Paths : Parent(q) = p}

HasEntries(tree, p) == \E q \in Children(p) : tree[q].kind # "none"

\* Why the directory holding p cannot be searched ("" when it can).
ParentErr(tree, p) ==
  IF Parent(p) = "/" THEN ""
  ELSE CASE tree[Parent(p)].kind = "dir" -> ""
         [] tree[Parent(p)].kind = "none" -> "ENOPATH"
         [] OTHER -> "ENOTDIR"

\* The path p names once the symbolic links at its end are followed.
RECURSIVE Follow(_, _, _)
Follow(tree, p, n) ==
  IF ParentErr(tree, p) # "" THEN [err |-> ParentErr(tree, p), path |-> p]
  ELSE IF tree[p].kind = "link"
    THEN IF n = 0 THEN [err |-> "ELOOP", path |-> p]
         ELSE Follow(tree, tree[p].to, n - 1)
  ELSE [err |-> "", path |-> p]

Resolve(tree, p) == Follow(tree, p, Cardinality(Paths))

\* The text of the platform's error, on a POSIX host and on a Windows host.
\* ENOPATH is a missing directory on the way to the path: ENOENT on POSIX,
\* ERROR_PATH_NOT_FOUND on Windows.
OsMessage(errno, host) ==
  CASE errno \in {"ENOENT", "ENOPATH"} /\ host = "posix" ->
         "No such file or directory (os error 2)"
    [] errno = "ENOENT" /\ host = "windows" ->
         "The system cannot find the file specified. (os error 2)"
    [] errno = "ENOPATH" /\ host = "windows" ->
         "The system cannot find the path specified. (os error 3)"
    [] errno = "EEXIST" /\ host = "posix" -> "File exists (os error 17)"
    [] errno = "EEXIST" /\ host = "windows" ->
         "Cannot create a file when that file already exists. (os error 183)"
    [] errno = "EISDIR" -> "Is a directory (os error 21)"
    [] errno = "ENOTDIR" -> "Not a directory (os error 20)"
    [] errno = "ENOTEMPTY" -> "Directory not empty (os error 39)"
    [] errno = "ELOOP" -> "Too many levels of symbolic links (os error 40)"
    [] OTHER -> "Invalid argument (os error 22)"

Hosts == {"posix", "windows"}

\* A value a call yields.  t names the JavaScript type: "undefined", "bytes"
\* (Uint8Array, in seq), "string" (in seq), "names" (string[], in set),
\* "dir" (the async iterable of Deno.readDir), "info" (Deno.FileInfo, in info).
NoInfo ==
  [kind |-> "none", atime |-> None, mtime |-> None, birthtime |-> None,
   ctime |-> None, atimeMs |-> None, mtimeMs |-> None, birthtimeMs |-> None,
   ctimeMs |-> None]

Undefined == [t |-> "undefined", seq |-> <<>>, set |-> {}, info |-> NoInfo, at |-> ""]

BytesVal(b) == [Undefined EXCEPT !.t = "bytes", !.seq = b]

StringVal(s) == [Undefined EXCEPT !.t = "string", !.seq = s]

NamesVal(names) == [Undefined EXCEPT !.t = "names", !.set = names]

DirIterVal(p) == [Undefined EXCEPT !.t = "dir", !.at = p]

InfoVal(info) == [Undefined EXCEPT !.t = "info", !.info = info]

\* The outcome of a platform operation: the tree after it, and either the
\* value it yields or an errno.
PlatformOk(tree, v) == [tree |-> tree, errno |-> "", val |-> v]

PlatformErr(tree, errno) == [tree |-> tree, errno |-> errno, val |-> Undefined]

\* Deno.readFile(path)
DenoReadFile(tree, p) ==
  LET r == Resolve(tree, p) IN
  IF r.err # "" THEN PlatformErr(tree, r.err)
  ELSE CASE tree[r.path].kind = "none" -> PlatformErr(tree, "ENOENT")
         [] tree[r.path].kind = "dir" -> PlatformErr(tree, "EISDIR")
         [] OTHER -> PlatformOk(tree, BytesVal(tree[r.path].data))

\* Deno.readTextFile(path)
DenoReadTextFile(tree, p) ==
  LET r == DenoReadFile(tree, p) IN
  IF r.errno # "" THEN r ELSE PlatformOk(tree, StringVal(TextDecode(r.val.seq)))

\* Deno.writeFile(path, bytes): creates or truncates (the default options).
DenoWriteFile(tree, p, bytes) ==
  LET r == Resolve(tree, p) IN
  IF r.err # "" THEN PlatformErr(tree, r.err)
  ELSE IF tree[r.path].kind = "dir" THEN PlatformErr(tree, "EISDIR")
  ELSE PlatformOk([tree EXCEPT ![r.path] = FileNode(bytes)], Undefined)

\* Deno.writeTextFile(path, text)
DenoWriteTextFile(tree, p, text) == DenoWriteFile(tree, p, TextEncode(text))

\* Deno.remove(path, { recursive })
DenoRemove(tree, p, recursive) ==
  IF ParentErr(tree, p) # "" THEN PlatformErr(tree, ParentErr(tree, p))
  ELSE IF tree[p].kind = "none" THEN PlatformErr(tree, "ENOENT")
  ELSE IF tree[p].kind = "dir" /\ HasEntries(tree, p) /\ ~recursive
    THEN PlatformErr(tree, "ENOTEMPTY")
  ELSE PlatformOk(
         [q \in Paths |->
            IF q = p \/ (tree[p].kind = "dir" /\ q \in Children(p))
            THEN NoNode ELSE tree[q]],
         Undefined)

\* Deno.mkdir(path, { recursive, mode }); the permission bits are not modelled.
DenoMkdir(tree, p, recursive) ==
  IF ~recursive THEN
    IF ParentErr(tree, p) # "" THEN PlatformErr(tree, ParentErr(tree, p))
    ELSE IF tree[p].kind # "none" THEN PlatformErr(tree, "EEXIST")
    ELSE PlatformOk([tree EXCEPT ![p] = DirNode], Undefined)
  ELSE
    IF ParentErr(tree, p) = "ENOTDIR" THEN PlatformErr(tree, "ENOTDIR")
    ELSE IF tree[p].kind = "dir" THEN PlatformOk(tree, Undefined)
    ELSE IF tree[p].kind = "link"
      THEN IF Resolve(tree, p).err = "" /\ tree[Resolve(tree, p).path].kind = "dir"
           THEN PlatformOk(tree, Undefined) ELSE PlatformErr(tree, "EEXIST")
    ELSE IF tree[p].kind = "file" THEN PlatformErr(tree, "EEXIST")
    ELSE PlatformOk(
           [q \in Paths |-> IF q = p \/ q = Parent(p) THEN DirNode ELSE tree[q]],
           Undefined)

\* The record Deno.stat / Deno.lstat yield for a node; times is what the
\* platform reports for atime, mtime, birthtime and ctime (each Date | null).
FileInfo(node, times) ==
  [NoInfo EXCEPT !.kind = node.kind, !.atime = times.atime, !.mtime = times.mtime,
                 !.birthtime = times.birthtime, !.ctime = times.ctime]

\* Deno.stat(path)
DenoStat(tree, p, times) ==
  LET r == Resolve(tree, p) IN
  IF r.err # "" THEN PlatformErr(tree, r.err)
  ELSE IF tree[r.path].kind = "none" THEN PlatformErr(tree, "ENOENT")
  ELSE PlatformOk(tree, InfoVal(FileInfo(tree[r.path], times)))

\* Deno.lstat(path)
DenoLstat(tree, p, times) ==
  IF ParentErr(tree, p) # "" THEN PlatformErr(tree, ParentErr(tree, p))
  ELSE IF tree[p].kind = "none" THEN PlatformErr(tree, "ENOENT")
  ELSE PlatformOk(tree, InfoVal(FileInfo(tree[p], times)))

\* Deno.readLink(path)
DenoReadLink(tree, p) ==
  IF ParentErr(tree, p) # "" THEN PlatformErr(tree, ParentErr(tree, p))
  ELSE IF tree[p].kind = "none" THEN PlatformErr(tree, "ENOENT")
  ELSE IF tree[p].kind # "link" THEN PlatformErr(tree, "EINVAL")
  ELSE PlatformOk(tree, StringVal(<<tree[p].to>>))

\* Deno.symlink(oldpath, newpath): creates newpath as a link to oldpath.
DenoSymlink(tree, oldpath, newpath) ==
  IF ParentErr(tree, newpath) # "" THEN PlatformErr(tree, ParentErr(tree, newpath))
  ELSE IF tree[newpath].kind # "none" THEN PlatformErr(tree, "EEXIST")
  ELSE PlatformOk([tree EXCEPT ![newpath] = LinkNode(oldpath)], Undefined)

\* Deno.chmod(path, mode); the permission bits are not modelled.
DenoChmod(tree, p) ==
  LET r == Resolve(tree, p) IN
  IF r.err # "" THEN PlatformErr(tree, r.err)
  ELSE IF tree[r.path].kind = "none" THEN PlatformErr(tree, "ENOENT")
  ELSE PlatformOk(tree, Undefined)

\* Iterating the result of Deno.readDir(path): the entries of the directory,
\* or the platform's error.  Deno.readDir itself never fails.
DenoReadDirEntries(tree, p) ==
  LET r == Resolve(tree, p) IN
  IF r.err # "" THEN PlatformErr(tree, r.err)
  ELSE CASE tree[r.path].kind = "none" -> PlatformErr(tree, "ENOENT")
         [] tree[r.path].kind = "file" -> PlatformErr(tree, "ENOTDIR")
         [] OTHER ->
              PlatformOk(tree,
                NamesVal({BaseName(q) : q \in {c \in Children(r.path) : tree[c].kind # "none"}}))

----------------------------------------------------------------------------
(* dn-fs.ts: errors, options, and the promise API                           *)

\* An error value: code and syscall are "" on an error that carries none;
\* message is <<text>> for a platform or runtime error, and
\* <<text, verb, path>> for the shim's "text, verb 'path'".
RawError(text) == [code |-> "", syscall |-> "", message |-> <<text>>]

NodeError(code, text, verb, path, syscall) ==
  [code |-> code, syscall |-> syscall, message |-> <<text, verb, path>>]

NoError == [code |-> "", syscall |-> "", message |-> <<>>]

\* err.message.match(/(cannot find the (file|path) specified)|(No such file or directory)/)
MatchesNotFound(msg) ==
  msg \in {"The system cannot find the file specified. (os error 2)",
           "The system cannot find the path specified. (os error 3)",
           "No such file or directory (os error 2)"}

\* err.message.match(/Cannot create a file when that file already exists/)
MatchesExistsWindows(msg) ==
  msg = "Cannot create a file when that file already exists. (os error 183)"

\* The pattern of mkdir with its POSIX alternative left out.
MatchesExists_WindowsOnly(msg) == MatchesExistsWindows(msg)

\* err.message.match(/(Cannot create a file when that file already exists)|(File exists)/)
MatchesExists(msg) ==
  MatchesExistsWindows(msg) \/ msg = "File exists (os error 17)"

\* An options object.  given is FALSE when the argument is left out.
NoOptions ==
  [given |-> FALSE, encoding |-> "absent", flag |-> "absent", recursive |-> "absent",
   withFileTypes |-> "absent", type |-> "absent"]

EmptyOptions == [NoOptions EXCEPT !.given = TRUE]

OptionKeys == {"encoding", "flag", "recursive", "withFileTypes", "type"}

\* { ...defaults, ...options }: a key of options wins, also when its value is
\* undefined.
Spread(defaults, options) ==
  [k \in OptionKeys \cup {"given"} |->
     IF k = "given" THEN TRUE
     ELSE IF options[k] # "absent" THEN options[k] ELSE defaults[k]]

\* What an async function of the promise API does: the tree after it, and
\* the value it resolves with or the error it rejects with.
Fulfilled(tree, v) == [tree |-> tree, ok |-> TRUE, val |-> v, error |-> NoError]

Rejected(tree, e) == [tree |-> tree, ok |-> FALSE, val |-> Undefined, error |-> e]

NotFoundText == "ENOENT: no such file or directory"

ExistsText == "EEXIST: file already exists"

\* The catch block shared by readFile, unlink, readdir, rmdir, lstat and
\* readlink: a not-found message becomes ENOENT with syscall "open".
CatchNotFoundAsOpen(tree, r, path, host) ==
  IF MatchesNotFound(OsMessage(r.errno, host))
  THEN Rejected(tree, NodeError("ENOENT", NotFoundText, "open", path, "open"))
  ELSE Rejected(tree, RawError(OsMessage(r.errno, host)))

readFile(tree, path, options, host) ==
  LET r == IF options.given /\ options.encoding = "utf8"
           THEN DenoReadTextFile(tree, path)
           ELSE DenoReadFile(tree, path)
  IN  IF r.errno = "" THEN Fulfilled(r.tree, r.val)
      ELSE CatchNotFoundAsOpen(tree, r, path, host)

WriteDefaults == [EmptyOptions EXCEPT !.encoding = "utf8", !.flag = "w"]

writeFile(tree, path, data, options, host) ==
  LET opts == IF options.given THEN options ELSE WriteDefaults
      r == IF data.t = "string"
           THEN IF opts.encoding = "utf8"
                THEN DenoWriteTextFile(tree, path, data.seq)
                ELSE DenoWriteFile(tree, path, TextEncode(data.seq))
           ELSE IF opts.encoding = "utf8"
                THEN DenoWriteTextFile(tree, path, TextDecode(data.seq))
                ELSE DenoWriteFile(tree, path, data.seq)
  IN  IF r.errno = "" THEN Fulfilled(r.tree, Undefined)
      ELSE IF MatchesExistsWindows(OsMessage(r.errno, host))
        THEN Rejected(tree, NodeError("EEXIST", ExistsText, "write", path, "write"))
      ELSE Rejected(tree, RawError(OsMessage(r.errno, host)))

unlink(tree, path, host) ==
  LET r == DenoRemove(tree, path, FALSE)
  IN  IF r.errno = "" THEN Fulfilled(r.tree, Undefined)
      ELSE CatchNotFoundAsOpen(tree, r, path, host)

ReaddirDefaults == [EmptyOptions EXCEPT !.encoding = "utf8", !.withFileTypes = "false"]

readdir(tree, path, options, host) ==
  LET opts == IF options.given THEN options ELSE ReaddirDefaults
  IN  IF opts.withFileTypes = "true"
      THEN Fulfilled(tree, DirIterVal(path))
      ELSE LET r == DenoReadDirEntries(tree, path)
           IN  IF r.errno = "" THEN Fulfilled(r.tree, r.val)
               ELSE CatchNotFoundAsOpen(tree, r, path, host)

MkdirDefaults == [EmptyOptions EXCEPT !.recursive = "false"]

mkdir(tree, path, options, host) ==
  LET opts == Spread(MkdirDefaults, IF options.given THEN options ELSE MkdirDefaults)
      r == DenoMkdir(tree, path, opts.recursive = "true")
  IN  IF r.errno = "" THEN Fulfilled(r.tree, Undefined)
      ELSE IF MatchesExists(OsMessage(r.errno, host))
        THEN Rejected(tree, NodeError("EEXIST", ExistsText, "mkdir", path, "mkdir"))
      ELSE CatchNotFoundAsOpen(tree, r, path, host)

RmdirDefaults == [EmptyOptions EXCEPT !.recursive = "false"]

rmdir(tree, path, options, host) ==
  LET opts == IF options.given THEN options ELSE RmdirDefaults
      r == DenoRemove(tree, path, opts.recursive = "true")
  IN  IF r.errno = "" THEN Fulfilled(r.tree, Undefined)
      ELSE CatchNotFoundAsOpen(tree, r, path, host)

stat(tree, path, host, times) ==
  LET r == DenoStat(tree, path, times)
  IN  IF r.errno = "" THEN Fulfilled(r.tree, r.val)
      ELSE IF MatchesNotFound(OsMessage(r.errno, host))
        THEN Rejected(tree, NodeError("ENOENT", NotFoundText, "stat", path, "stat"))
      ELSE Rejected(tree, RawError(OsMessage(r.errno, host)))

\* new Date(d).getTime() for d a Date or null: null converts to the number 0.
DateGetTime(d) == IF IsSome(d) THEN d[1] ELSE 0

lstat(tree, path, host, times) ==
  LET r == DenoLstat(tree, path, times)
      raw == r.val.info
      ctime == IF IsSome(raw.ctime) THEN raw.ctime ELSE raw.birthtime
      result ==
        [raw EXCEPT
           !.atimeMs = IF IsSome(raw.atime) THEN Some(DateGetTime(raw.atime)) ELSE None,
           !.mtimeMs = IF IsSome(raw.mtime) THEN Some(DateGetTime(raw.mtime)) ELSE None,
           !.birthtimeMs =
              IF IsSome(raw.birthtime) THEN Some(DateGetTime(raw.birthtime)) ELSE None,
           !.ctime = ctime,
           !.ctimeMs = Some(DateGetTime(ctime))]
  IN  IF r.errno = "" THEN Fulfilled(r.tree, InfoVal(result))
      ELSE CatchNotFoundAsOpen(tree, r, path, host)

readlink(tree, path, host) ==
  LET r == DenoReadLink(tree, path)
  IN  IF r.errno = "" THEN Fulfilled(r.tree, r.val)
      ELSE CatchNotFoundAsOpen(tree, r, path, host)

\* type only selects the options handed to Deno.symlink, which a POSIX host
\* ignores; no error is mapped.
symlink(tree, target, path, type, host) ==
  LET oldPath == path
      newPath == target
      r == DenoSymlink(tree, oldPath, newPath)
  IN  IF r.errno = "" THEN Fulfilled(r.tree, Undefined)
      ELSE Rejected(tree, RawError(OsMessage(r.errno, host)))

chmod(tree, path, host) ==
  LET r == DenoChmod(tree, path)
  IN  IF r.errno = "" THEN Fulfilled(r.tree, Undefined)
      ELSE Rejected(tree, RawError(OsMessage(r.errno, host)))

----------------------------------------------------------------------------
(* dn-fs.ts: the callback API, and one call at a time as a state machine   *)

VARIABLES
  fsys,   \* the host file tree: the node at each path of Paths
  call,   \* the fs call in progress
  col,    \* the collect run in progress
  req     \* the http request in progress

vars == <<fsys, call, col, req>>

\* One argument in the place of options: a function, an object, or nothing.
FnArg == [t |-> "fn", o |-> NoOptions]

ObjArg(o) == [t |-> "obj", o |-> o]

UndefArg == [t |-> "undefined", o |-> NoOptions]

NullArg == [t |-> "null", o |-> NoOptions]

\* resolve(defaults, options, cb).  threw: the Error "Callback function not
\* defined" was thrown.  cb is the type of what is returned as cb.
resolve(defaults, options, cb) ==
  LET _options == IF options.t = "fn" THEN defaults ELSE Spread(defaults, options.o)
      cb2 == IF cb = "fn" THEN "fn" ELSE options.t
  IN  [threw |-> cb2 \in {"undefined", "null"}, options |-> _options, cb |-> cb2]

NoOutcome == [ok |-> FALSE, val |-> Undefined, error |-> NoError]

IdleCall ==
  [pc |-> "idle", api |-> "", op |-> "", path |-> "", target |-> "", data |-> Undefined,
   options |-> NoOptions, cbOnly |-> FALSE, cb |-> "", cbThrows |-> FALSE,
   outcome |-> NoOutcome, log |-> <<>>, unhandled |-> FALSE, before |-> fsys]

\* The call record of fs.promises.<op>(...): the async function has started.
PromiseCall(op, path, target, data, options) ==
  [IdleCall EXCEPT !.pc = "pending", !.api = "promise", !.op = op, !.path = path,
                   !.target = target, !.data = data, !.options = options,
                   !.before = fsys]

\* The call record of fs.<op>(...) once its arguments are resolved: either
\* the usage error is thrown, or the async function has started with the
\* then and catch handlers attached.  cbOnly: after the required arguments
\* the caller passed the callback function and nothing else.  throws: the
\* caller's callback throws when it is invoked.
CallbackCall(op, path, target, data, resolved, cbOnly, throws) ==
  [IdleCall EXCEPT
     !.pc = IF resolved.threw THEN "thrown" ELSE "pending",
     !.api = "callback", !.op = op, !.path = path, !.target = target,
     !.data = data, !.options = resolved.options, !.cbOnly = cbOnly,
     !.cb = IF resolved.cb = "fn" THEN "fn" ELSE "notfn",
     !.cbThrows = throws /\ resolved.cb = "fn",
     !.before = fsys]

\* The (options, cb) argument pairs of a callback-style call: both given,
\* the callback in the place of options, options alone, neither.
CallbackArgs(optionSet) ==
  {[options |-> ObjArg(o), cb |-> c] : o \in optionSet, c \in {"fn", "undefined"}}
    \cup {[options |-> FnArg, cb |-> "undefined"], [options |-> UndefArg, cb |-> "undefined"]}

DataArgs ==
  {StringVal(x) : x \in SeqsUpTo(CharVals, MaxLen)}
    \cup {BytesVal(b) : b \in SeqsUpTo(ByteVals, MaxLen)}

ReadOptionSet == {[EmptyOptions EXCEPT !.encoding = e] : e \in {"absent", "utf8"}}

WriteOptionSet ==
  {[EmptyOptions EXCEPT !.encoding = e, !.flag = f] :
     e \in {"absent", "utf8", "binary"}, f \in {"absent", "wx"}}

ReaddirOptionSet == {[EmptyOptions EXCEPT !.withFileTypes = w] : w \in {"true", "false"}}

MkdirOptionSet ==
  {[EmptyOptions EXCEPT !.recursive = r] : r \in {"absent", "true", "false"}}

RmdirOptionSet == {[EmptyOptions EXCEPT !.recursive = r] : r \in {"true", "false"}}

TypeArgs == {"file", "dir", "undefined"}

promises_readFile ==
  /\ call.pc = "idle"
  /\ \E path \in Paths, options \in {NoOptions} \cup ReadOptionSet :
       call' = PromiseCall("readFile", path, "", Undefined, options)
  /\ UNCHANGED <<fsys, col, req>>

promises_writeFile ==
  /\ call.pc = "idle"
  /\ \E path \in Paths, data \in DataArgs, options \in {NoOptions} \cup WriteOptionSet :
       call' = PromiseCall("writeFile", path, "", data, options)
  /\ UNCHANGED <<fsys, col, req>>

promises_unlink ==
  /\ call.pc = "idle"
  /\ \E path \in Paths : call' = PromiseCall("unlink", path, "", Undefined, NoOptions)
  /\ UNCHANGED <<fsys, col, req>>

promises_readdir ==
  /\ call.pc = "idle"
  /\ \E path \in Paths, options \in {NoOptions} \cup ReaddirOptionSet :
       call' = PromiseCall("readdir", path, "", Undefined, options)
  /\ UNCHANGED <<fsys, col, req>>

promises_mkdir ==
  /\ call.pc = "idle"
  /\ \E path \in Paths, options \in {NoOptions} \cup MkdirOptionSet :
       call' = PromiseCall("mkdir", path, "", Undefined, options)
  /\ UNCHANGED <<fsys, col, req>>

promises_rmdir ==
  /\ call.pc = "idle"
  /\ \E path \in Paths, options \in {NoOptions} \cup RmdirOptionSet :
       call' = PromiseCall("rmdir", path, "", Undefined, options)
  /\ UNCHANGED <<fsys, col, req>>

promises_stat ==
  /\ call.pc = "idle"
  /\ \E path \in Paths : call' = PromiseCall("stat", path, "", Undefined, NoOptions)
  /\ UNCHANGED <<fsys, col, req>>

promises_lstat ==
  /\ call.pc = "idle"
  /\ \E path \in Paths : call' = PromiseCall("lstat", path, "", Undefined, NoOptions)
  /\ UNCHANGED <<fsys, col, req>>

promises_readlink ==
  /\ call.pc = "idle"
  /\ \E path \in Paths : call' = PromiseCall("readlink", path, "", Undefined, NoOptions)
  /\ UNCHANGED <<fsys, col, req>>

\* type, when given, is carried in options.type.
promises_symlink ==
  /\ call.pc = "idle"
  /\ \E target \in LeafPaths, path \in LeafPaths, type \in TypeArgs :
       call' = PromiseCall("symlink", path, target, Undefined, [EmptyOptions EXCEPT !.type = type])
  /\ UNCHANGED <<fsys, col, req>>

promises_chmod ==
  /\ call.pc = "idle"
  /\ \E path \in Paths : call' = PromiseCall("chmod", path, "", Undefined, NoOptions)
  /\ UNCHANGED <<fsys, col, req>>

fs_readFile ==
  /\ call.pc = "idle"
  /\ \E path \in Paths, a \in CallbackArgs(ReadOptionSet), throws \in BOOLEAN :
       call' = CallbackCall("readFile", path, "", Undefined,
                     resolve([EmptyOptions EXCEPT !.encoding = "utf8"], a.options, a.cb),
                     a.options.t = "fn", throws)
  /\ UNCHANGED <<fsys, col, req>>

fs_writeFile ==
  /\ call.pc = "idle"
  /\ \E path \in Paths, data \in DataArgs, a \in CallbackArgs(WriteOptionSet),
        throws \in BOOLEAN :
       call' = CallbackCall("writeFile", path, "", data,
                     resolve(WriteDefaults, a.options, a.cb), a.options.t = "fn", throws)
  /\ UNCHANGED <<fsys, col, req>>

fs_unlink ==
  /\ call.pc = "idle"
  /\ \E path \in Paths, cb \in {"fn", "undefined"}, throws \in BOOLEAN :
       call' = CallbackCall("unlink", path, "", Undefined, resolve(NoOptions, NullArg, cb),
                     cb = "fn", throws)
  /\ UNCHANGED <<fsys, col, req>>

fs_readdir ==
  /\ call.pc = "idle"
  /\ \E path \in Paths, a \in CallbackArgs(ReaddirOptionSet), throws \in BOOLEAN :
       call' = CallbackCall("readdir", path, "", Undefined,
                     resolve(ReaddirDefaults, a.options, a.cb), a.options.t = "fn", throws)
  /\ UNCHANGED <<fsys, col, req>>

fs_mkdir ==
  /\ call.pc = "idle"
  /\ \E path \in Paths, a \in CallbackArgs(MkdirOptionSet), throws \in BOOLEAN :
       call' = CallbackCall("mkdir", path, "", Undefined,
                     resolve(MkdirDefaults, a.options, a.cb), a.options.t = "fn", throws)
  /\ UNCHANGED <<fsys, col, req>>

fs_rmdir ==
  /\ call.pc = "idle"
  /\ \E path \in Paths, a \in CallbackArgs(RmdirOptionSet), throws \in BOOLEAN :
       call' = CallbackCall("rmdir", path, "", Undefined,
                     resolve(RmdirDefaults, a.options, a.cb), a.options.t = "fn", throws)
  /\ UNCHANGED <<fsys, col, req>>

fs_stat ==
  /\ call.pc = "idle"
  /\ \E path \in Paths, a \in CallbackArgs({EmptyOptions}), throws \in BOOLEAN :
       call' = CallbackCall("stat", path, "", Undefined,
                     resolve(EmptyOptions, a.options, a.cb), a.options.t = "fn", throws)
  /\ UNCHANGED <<fsys, col, req>>

fs_lstat ==
  /\ call.pc = "idle"
  /\ \E path \in Paths, cb \in {"fn", "undefined"}, throws \in BOOLEAN :
       call' = CallbackCall("lstat", path, "", Undefined, resolve(NoOptions, NullArg, cb),
                     cb = "fn", throws)
  /\ UNCHANGED <<fsys, col, req>>

fs_readlink ==
  /\ call.pc = "idle"
  /\ \E path \in Paths, a \in CallbackArgs({EmptyOptions}), throws \in BOOLEAN :
       call' = CallbackCall("readlink", path, "", Undefined,
                     resolve([EmptyOptions EXCEPT !.encoding = "utf8"], a.options, a.cb),
                     a.options.t = "fn", throws)
  /\ UNCHANGED <<fsys, col, req>>

\* fs.symlink(target, path, type, cb): type is "fn" when the caller passes
\* the callback third.  The options handed to resolve are the object { type }.
fs_symlink ==
  /\ call.pc = "idle"
  /\ \E target \in LeafPaths, path \in LeafPaths,
        a \in {[type |-> t, cb |-> c] : t \in TypeArgs, c \in {"fn", "undefined"}}
                \cup {[type |-> "fn", cb |-> "undefined"]},
        throws \in BOOLEAN :
       call' = CallbackCall("symlink", path, target, Undefined,
                     resolve([EmptyOptions EXCEPT !.type = "file"],
                             ObjArg([EmptyOptions EXCEPT !.type = a.type]), a.cb),
                     a.type = "fn", throws)
  /\ UNCHANGED <<fsys, col, req>>

\* fs.chmod(path, mode, cb) uses cb as it is given.
fs_chmod ==
  /\ call.pc = "idle"
  /\ \E path \in Paths, cb \in {"fn", "undefined"}, throws \in BOOLEAN :
       call' = CallbackCall("chmod", path, "", Undefined,
                     [threw |-> FALSE, options |-> NoOptions, cb |-> cb], cb = "fn", throws)
  /\ UNCHANGED <<fsys, col, req>>

\* What the platform reports for the four timestamps of a node.
TimeVals == {0, 1000}

OptionalTimes == {None} \cup {Some(t) : t \in TimeVals}

Times == [atime : OptionalTimes, mtime : OptionalTimes, birthtime : OptionalTimes,
          ctime : OptionalTimes]

NoTimes == [atime |-> None, mtime |-> None, birthtime |-> None, ctime |-> None]

\* The async function of the promise API the call runs.
RunOp(c, tree, host, times) ==
  CASE c.op = "readFile" -> readFile(tree, c.path, c.options, host)
    [] c.op = "writeFile" -> writeFile(tree, c.path, c.data, c.options, host)
    [] c.op = "unlink" -> unlink(tree, c.path, host)
    [] c.op = "readdir" -> readdir(tree, c.path, c.options, host)
    [] c.op = "mkdir" -> mkdir(tree, c.path, c.options, host)
    [] c.op = "rmdir" -> rmdir(tree, c.path, c.options, host)
    [] c.op = "stat" -> stat(tree, c.path, host, times)
    [] c.op = "lstat" -> lstat(tree, c.path, host, times)
    [] c.op = "readlink" -> readlink(tree, c.path, host)
    [] c.op = "symlink" -> symlink(tree, c.target, c.path, c.options.type, host)
    [] OTHER -> chmod(tree, c.path, host)

\* The platform operation completes and the async function settles its
\* promise.
Settle ==
  /\ call.pc = "pending"
  /\ \E host \in Hosts,
        times \in (IF call.op \in {"stat", "lstat"} THEN Times ELSE {NoTimes}) :
       LET out == RunOp(call, fsys, host, times)
       IN  /\ fsys' = out.tree
           /\ call' = [call EXCEPT
                         !.pc = "settled",
                         !.outcome = [ok |-> out.ok, val |-> out.val, error |-> out.error]]
  /\ UNCHANGED <<col, req>>

\* .then((result) => resolved.cb(null, result)): runs when the promise is
\* fulfilled.  The promise it returns is rejected when the handler throws:
\* the callback threw, or resolved.cb is not a function.
ThenHandler ==
  /\ call.api = "callback"
  /\ call.pc = "settled"
  /\ call.outcome.ok
  /\ call' = [call EXCEPT
                !.log = IF call.cb = "fn" THEN Append(@, "result") ELSE @,
                !.pc = IF call.cb = "fn" /\ ~call.cbThrows THEN "done" ELSE "then_threw"]
  /\ UNCHANGED <<fsys, col, req>>

\* .catch((err) => resolved.cb(err)): runs when the async function rejected,
\* and also when the then handler threw.  An error thrown here is an
\* unhandled rejection.
CatchHandler ==
  /\ call.api = "callback"
  /\ \/ call.pc = "settled" /\ ~call.outcome.ok
     \/ call.pc = "then_threw"
  /\ call' = [call EXCEPT
                !.log = IF call.cb = "fn" THEN Append(@, "error") ELSE @,
                !.pc = "done",
                !.unhandled = ~(call.cb = "fn" /\ ~call.cbThrows)]
  /\ UNCHANGED <<fsys, col, req>>

\* The call is over: the awaited promise has settled, the handlers have
\* run, or the usage error has been thrown.
Finish ==
  /\ \/ call.pc \in {"done", "thrown"}
     \/ call.pc = "settled" /\ call.api = "promise"
  /\ call' = IdleCall
  /\ UNCHANGED <<fsys, col, req>>

----------------------------------------------------------------------------
(* utils: getIterator, fromValue, forAwait, collect                         *)

\* Most chunks a source delivers before it reports completion.
MaxChunks == 2

\* Longest chunk, in bytes.
MaxChunkLen == 1

ChunkBytes == {1, 2}

Chunks == SeqsUpTo(ChunkBytes, MaxChunkLen)

\* A source of chunks: the protocol it exposes ("asyncIterator", "iterator",
\* "next"), the chunks it delivers with done: false, the value it delivers
\* with done: true (None when that value is undefined), and whether its
\* iterator has a return method.
Sources ==
  [proto : {"asyncIterator", "iterator", "next"},
   chunks : SeqsUpTo(Chunks, MaxChunks),
   last : {None} \cup {Some(c) : c \in Chunks},
   hasReturn : BOOLEAN]

\* fromValue(value): an iterator over the one value, with a return method.
fromValue(value) == [queue |-> <<value>>, last |-> None, hasReturn |-> TRUE]

\* getIterator(iterable): the iterator of the first protocol the source
\* exposes, and fromValue(iterable) when it exposes none.
getIterator(iterable) ==
  CASE iterable.proto = "asyncIterator" ->
         [queue |-> iterable.chunks, last |-> iterable.last,
          hasReturn |-> iterable.hasReturn]
    [] iterable.proto = "iterator" ->
         [queue |-> iterable.chunks, last |-> iterable.last,
          hasReturn |-> iterable.hasReturn]
    [] iterable.proto = "next" ->
         [queue |-> iterable.chunks, last |-> iterable.last,
          hasReturn |-> iterable.hasReturn]
    [] OTHER -> fromValue(iterable)

\* iter.next(): { value, done }; value is None for undefined.
IterNext(iter) ==
  IF iter.queue # <<>>
  THEN [value |-> Some(Head(iter.queue)), done |-> FALSE]
  ELSE [value |-> iter.last, done |-> TRUE]

\* if (value): a chunk is an object, truthy also when empty; undefined is not.
Truthy(value) == IsSome(value)

\* The loop with the test of done moved before the callback: the value that
\* comes with done: true is dropped.
CallsBack_BreakFirst(r) == Truthy(r.value) /\ ~r.done

\* if (value) await cb(value), before if (done) break
CallsBack(r) == Truthy(r.value)

\* result.set(buffer, nextIndex)
TypedArraySet(result, buffer, nextIndex) ==
  [i \in 1..Len(result) |->
     IF i > nextIndex /\ i <= nextIndex + Len(buffer)
     THEN buffer[i - nextIndex] ELSE result[i]]

\* for (const buffer of buffers) { result.set(buffer, nextIndex); ... }
RECURSIVE SetBuffers(_, _, _)
SetBuffers(result, buffers, nextIndex) ==
  IF buffers = <<>> THEN result
  ELSE SetBuffers(TypedArraySet(result, Head(buffers), nextIndex), Tail(buffers),
                  nextIndex + Len(Head(buffers)))

IdleCollect ==
  [pc |-> "idle", source |-> [proto |-> "", chunks |-> <<>>, last |-> None,
                              hasReturn |-> FALSE],
   iter |-> [queue |-> <<>>, last |-> None, hasReturn |-> FALSE],
   buffers |-> <<>>, size |-> 0, nextCalls |-> 0, returnCalls |-> 0, result |-> <<>>]

\* collect(iterable) starts forAwait, which takes the iterator.
CollectStart ==
  /\ col.pc = "start"
  /\ col' = [col EXCEPT !.pc = "loop", !.iter = getIterator(col.source)]
  /\ UNCHANGED <<fsys, call, req>>

\* One turn of the loop of forAwait: next(), the callback of collect on a
\* truthy value, and the test of done.
ForAwaitStep ==
  /\ col.pc = "loop"
  /\ LET r == IterNext(col.iter) IN
       col' = [col EXCEPT
                 !.iter.queue = IF @ # <<>> THEN Tail(@) ELSE @,
                 !.nextCalls = @ + 1,
                 !.buffers = IF CallsBack(r) THEN Append(@, r.value[1]) ELSE @,
                 !.size = IF CallsBack(r) THEN @ + Len(r.value[1]) ELSE @,
                 !.pc = IF r.done THEN "return" ELSE "loop"]
  /\ UNCHANGED <<fsys, call, req>>

\* if (iter.return) iter.return()
ForAwaitReturn ==
  /\ col.pc = "return"
  /\ col' = [col EXCEPT !.pc = "build",
                        !.returnCalls = IF col.iter.hasReturn THEN @ + 1 ELSE @]
  /\ UNCHANGED <<fsys, call, req>>

\* collect allocates the result and copies the buffers into it.
CollectResult ==
  /\ col.pc = "build"
  /\ col' = [col EXCEPT
               !.pc = "done",
               !.result = SetBuffers([i \in 1..col.size |-> 0], col.buffers, 0)]
  /\ UNCHANGED <<fsys, call, req>>

----------------------------------------------------------------------------
(* http.ts: request, over the platform's fetch                              *)

\* The method argument: "absent" when the caller gives none.
Methods == {"absent", "POST"}

\* What fetch resolves with: whether res.body is a stream with getReader,
\* the status, and the bytes of the response body.
Responses == [hasReader : BOOLEAN, status : {200, 404}, bytes : {<<7>>}]

NoResponse == [hasReader |-> FALSE, status |-> 0, bytes |-> <<>>]

\* fromStream(stream): the iterator over the chunks the stream delivers.
fromStream(stream) == [kind |-> "stream", chunks |-> <<stream>>]

NoResult == [method |-> "", statusCode |-> 0, body |-> [kind |-> "", chunks |-> <<>>]]

\* body: the body argument, None when undefined, else the source of chunks.
\* fetchCalls: the calls of fetch made; fetchMethod, fetchBody: what the
\* last one was handed; nextCallsAtFetch: the calls of next() on the body
\* source made before it; drainFailed: next() on the body source rejected.
IdleRequest ==
  [pc |-> "idle", method |-> "", body |-> None, fetchCalls |-> 0, fetchMethod |-> "",
   fetchBody |-> None, nextCallsAtFetch |-> 0, drainFailed |-> FALSE,
   res |-> NoResponse, result |-> NoResult]

\* if (body): a source of chunks is an object, truthy; undefined is not.
\* collect(body) is called and awaited.
RequestStart ==
  /\ req.pc = "start"
  /\ IF Truthy(req.body)
     THEN /\ req' = [req EXCEPT !.pc = "collect"]
          /\ col' = [IdleCollect EXCEPT !.pc = "start", !.source = req.body[1]]
     ELSE /\ req' = [req EXCEPT !.pc = "ready"]
          /\ col' = col
  /\ UNCHANGED <<fsys, call>>

\* await iter.next() rejects: forAwait has no handler, so collect rejects,
\* and request with it.  iter.return is not called.
BodyNextRejects ==
  /\ req.pc = "collect"
  /\ col.pc = "loop"
  /\ col' = [col EXCEPT !.pc = "failed", !.nextCalls = @ + 1]
  /\ req' = [req EXCEPT !.pc = "rejected", !.drainFailed = TRUE]
  /\ UNCHANGED <<fsys, call>>

\* fetch is called while collect(body) is still running.
DrainAwaited_NotAwaited == TRUE

\* body = await collect(body): request goes on when collect has returned.
DrainAwaited == col.pc = "done"

\* fetch(url, { method, headers, body }), with method defaulting to "GET"
\* and body either undefined or the result of collect.
RequestFetch ==
  /\ \/ req.pc = "ready"
     \/ req.pc = "collect" /\ DrainAwaited
  /\ req' = [req EXCEPT
               !.pc = "fetching",
               !.fetchCalls = @ + 1,
               !.fetchMethod = IF req.method = "absent" THEN "GET" ELSE req.method,
               !.fetchBody = IF req.pc = "collect" THEN Some(col.result) ELSE None,
               !.nextCallsAtFetch = col.nextCalls]
  /\ UNCHANGED <<fsys, call, col>>

\* await fetch(...) resolves with a response.
FetchResolves ==
  /\ req.pc = "fetching"
  /\ \E res \in Responses : req' = [req EXCEPT !.pc = "responded", !.res = res]
  /\ UNCHANGED <<fsys, call, col>>

\* await fetch(...) rejects (the network failed): request rejects.
FetchRejects ==
  /\ req.pc = "fetching"
  /\ req' = [req EXCEPT !.pc = "rejected"]
  /\ UNCHANGED <<fsys, call, col>>

\* The returned object: the body is the stream as an iterator when the
\* response has one with getReader, else the array of the one buffer of
\* res.arrayBuffer().
RequestReturn ==
  /\ req.pc = "responded"
  /\ req' = [req EXCEPT
               !.pc = "done",
               !.result = [method |-> req.fetchMethod,
                           statusCode |-> req.res.status,
                           body |-> IF req.res.hasReader
                                    THEN fromStream(req.res.bytes)
                                    ELSE [kind |-> "array", chunks |-> <<req.res.bytes>>]]]
  /\ UNCHANGED <<fsys, call, col>>

----------------------------------------------------------------------------
(* Specifications                                                           *)

EmptyTree == [p \in Paths |-> NoNode]

\* The fs shim over an empty tree, one call after another.
Init ==
  /\ fsys = EmptyTree
  /\ call = [IdleCall EXCEPT !.before = EmptyTree]
  /\ col = IdleCollect
  /\ req = IdleRequest

Next ==
  \/ promises_readFile \/ promises_writeFile \/ promises_unlink \/ promises_readdir
  \/ promises_mkdir \/ promises_rmdir \/ promises_stat \/ promises_lstat
  \/ promises_readlink \/ promises_symlink \/ promises_chmod
  \/ fs_readFile \/ fs_writeFile \/ fs_unlink \/ fs_readdir \/ fs_mkdir \/ fs_rmdir
  \/ fs_stat \/ fs_lstat \/ fs_readlink \/ fs_symlink \/ fs_chmod
  \/ Settle \/ ThenHandler \/ CatchHandler \/ Finish

Spec == Init /\ [][Next]_vars

\* One run of collect on each source.  Every turn of the loop is a step the
\* event loop takes once the awaited promise has settled, so a run that can
\* take a step does.
CollectInit ==
  /\ fsys = EmptyTree
  /\ call = [IdleCall EXCEPT !.before = EmptyTree]
  /\ \E src \in Sources : col = [IdleCollect EXCEPT !.pc = "start", !.source = src]
  /\ req = IdleRequest

CollectNext == CollectStart \/ ForAwaitStep \/ ForAwaitReturn \/ CollectResult

CollectSpec == CollectInit /\ [][CollectNext]_vars /\ WF_vars(CollectNext)

\* One run of request on each body argument and method.  Every step is one
\* the event loop takes once the awaited promise has settled, so a run that
\* can take a step does; whether a promise of the platform or of the body
\* source resolves or rejects is not the program's choice.
RequestInit ==
  /\ fsys = EmptyTree
  /\ call = [IdleCall EXCEPT !.before = EmptyTree]
  /\ col = IdleCollect
  /\ \E body \in {None} \cup {Some(src) : src \in Sources}, method \in Methods :
       req = [IdleRequest EXCEPT !.pc = "start", !.body = body, !.method = method]

RequestNext ==
  \/ RequestStart \/ CollectStart \/ ForAwaitStep \/ BodyNextRejects \/ ForAwaitReturn
  \/ CollectResult \/ RequestFetch \/ FetchResolves \/ FetchRejects \/ RequestReturn

RequestSpec == RequestInit /\ [][RequestNext]_vars /\ WF_vars(RequestNext)

----------------------------------------------------------------------------
(* Properties                                                               *)

\* A child exists only in a directory, and links live at leaf paths only.
TreeOK ==
  /\ \A p \in Paths : fsys[p].kind # "none" => ParentErr(fsys, p) = ""
  /\ \A p \in Paths : fsys[p].kind = "link" => p \in LeafPaths /\ fsys[p].to \in LeafPaths

CallbackDone == call.api = "callback" /\ call.pc = "done"

Settled == call.pc = "settled"

SettledPromise == call.pc = "settled" /\ call.api = "promise"

\* C1: a callback-style call that passes only the callback function, leaving
\* out the optional argument before it, has invoked that callback exactly
\* once when the call is over, also when the callback returns normally.
C1_CallbackOnlyInvokedOnce ==
  (CallbackDone /\ call.cbOnly /\ ~call.cbThrows) => Len(call.log) = 1

\* C2: the callback of a callback-style call is invoked at most once,
\* whatever it does when invoked.
C2_CallbackAtMostOnce == Len(call.log) <= 1

\* The operation name Node reports for each call on a missing path.
ExpectedSyscall(op) == IF op = "readFile" THEN "open" ELSE op

\* C3: on a path that does not exist, the promise forms of readFile, stat,
\* lstat, readlink, unlink and rmdir fail with code ENOENT, with syscall and
\* message naming the operation, and leave the tree unchanged.
C3_MissingPathErrorNamesOperation ==
  (SettledPromise
     /\ call.op \in {"readFile", "stat", "lstat", "readlink", "unlink", "rmdir"}
     /\ call.before[call.path].kind = "none")
  => /\ ~call.outcome.ok
     /\ fsys = call.before
     /\ call.outcome.error.code = "ENOENT"
     /\ call.outcome.error.syscall = ExpectedSyscall(call.op)
     /\ call.outcome.error.message
          = <<NotFoundText, ExpectedSyscall(call.op), call.path>>

ParentMissing(tree, p) == Parent(p) # "/" /\ tree[Parent(p)].kind = "none"

\* C4: mkdir on an existing directory fails with code EEXIST unless recursive
\* is true, and then succeeds and changes nothing; mkdir without recursive
\* true under a missing parent fails with code ENOENT and creates nothing.
C4_MkdirExistingAndMissingParent ==
  (Settled /\ call.op = "mkdir")
  => /\ (call.before[call.path].kind = "dir" /\ call.options.recursive # "true")
          => (~call.outcome.ok /\ call.outcome.error.code = "EEXIST"
              /\ fsys = call.before)
     /\ (call.before[call.path].kind = "dir" /\ call.options.recursive = "true")
          => (call.outcome.ok /\ fsys = call.before)
     /\ (ParentMissing(call.before, call.path) /\ call.options.recursive # "true")
          => (~call.outcome.ok /\ call.outcome.error.code = "ENOENT"
              /\ fsys = call.before)

\* A non-recursive mkdir on an existing directory has been refused.
C4_Witness ==
  /\ Settled /\ call.op = "mkdir"
  /\ call.before[call.path].kind = "dir"
  /\ call.options.recursive # "true"
  /\ call.outcome.error.code = "EEXIST"

\* What readFile yields right after the write: the bytes for binary data,
\* the utf8 text for a string.
ReadBack(tree, path, data) ==
  readFile(tree, path,
           IF data.t = "string" THEN [EmptyOptions EXCEPT !.encoding = "utf8"]
           ELSE NoOptions,
           "posix")

\* C5: after writeFile(p, d, options) has succeeded, readFile(p) yields d,
\* for every encoding option and for the default.
C5_WriteThenReadRoundTrip ==
  (SettledPromise /\ call.op = "writeFile" /\ call.outcome.ok)
  => /\ ReadBack(fsys, call.path, call.data).ok
     /\ ReadBack(fsys, call.path, call.data).val.t = call.data.t
     /\ ReadBack(fsys, call.path, call.data).val.seq = call.data.seq

\* C6: writeFile with the exclusive flag "wx" on an existing file fails with
\* code EEXIST and leaves the file as it was.
C6_ExclusiveWriteRefused ==
  (Settled /\ call.op = "writeFile" /\ call.options.flag = "wx"
     /\ call.before[call.path].kind = "file")
  => /\ ~call.outcome.ok
     /\ call.outcome.error.code = "EEXIST"
     /\ fsys = call.before

\* C7: in a result of lstat each of atimeMs, mtimeMs, birthtimeMs, ctimeMs is
\* there exactly when its base field is, and is then its millisecond value.
C7_DerivedFieldIffBaseField ==
  (Settled /\ call.op = "lstat" /\ call.outcome.ok)
  => LET info == call.outcome.val.info IN
     /\ IsSome(info.atimeMs) <=> IsSome(info.atime)
     /\ IsSome(info.mtimeMs) <=> IsSome(info.mtime)
     /\ IsSome(info.birthtimeMs) <=> IsSome(info.birthtime)
     /\ IsSome(info.ctimeMs) <=> IsSome(info.ctime)
     /\ info.atimeMs = info.atime
     /\ info.mtimeMs = info.mtime
     /\ info.birthtimeMs = info.birthtime
     /\ info.ctimeMs = info.ctime

\* C8: after symlink(target, path, type) has succeeded the link is at path
\* and points to target, readlink(path) yields target, and nothing was
\* created at target.
C8_SymlinkAtPathPointsToTarget ==
  (Settled /\ call.op = "symlink" /\ call.outcome.ok)
  => /\ fsys[call.path] = LinkNode(call.target)
     /\ readlink(fsys, call.path, "posix").ok
     /\ readlink(fsys, call.path, "posix").val.seq = <<call.target>>
     /\ call.target # call.path => fsys[call.target] = call.before[call.target]

\* C9: readdir on a missing directory rejects with code ENOENT, whatever
\* withFileTypes is.
C9_ReaddirMissingRejects ==
  (SettledPromise /\ call.op = "readdir" /\ call.before[call.path].kind = "none")
  => (~call.outcome.ok /\ call.outcome.error.code = "ENOENT")

\* The bytes of the chunks, one after the other.
RECURSIVE Concat(_)
Concat(chunks) == IF chunks = <<>> THEN <<>> ELSE Head(chunks) \o Concat(Tail(chunks))

RECURSIVE SumLen(_)
SumLen(chunks) == IF chunks = <<>> THEN 0 ELSE Len(Head(chunks)) + SumLen(Tail(chunks))

\* Every chunk the source of the run delivers, in delivery order: those
\* with done: false, then the one that comes with done: true.
Delivered == col.source.chunks \o col.source.last

\* C10: collect ends, and its result is the delivered chunks concatenated in
\* delivery order, as long as the sum of their lengths, each chunk there
\* once; next() is never called after completion and return() is called
\* once, after completion, when the iterator has it.
C10_CollectConcatenates ==
  /\ [](col.pc = "done" =>
          /\ col.result = Concat(Delivered)
          /\ Len(col.result) = SumLen(Delivered)
          /\ col.buffers = Delivered
          /\ col.nextCalls = Len(col.source.chunks) + 1
          /\ col.returnCalls = IF col.source.hasReturn THEN 1 ELSE 0)
  /\ [](col.returnCalls > 0 => col.pc \in {"build", "done"})
  /\ <>(col.pc = "done")

\* A run has ended on a source that delivered an empty chunk and then a
\* chunk together with the completion signal.
C10_Witness ==
  /\ col.pc = "done"
  /\ Len(col.source.chunks) = MaxChunks
  /\ col.source.chunks[1] = <<>>
  /\ IsSome(col.source.last) /\ col.source.last[1] # <<>>
  /\ col.source.hasReturn
  /\ col.result = Concat(Delivered)

\* C11: a callback-style call that supplies no callback function, with or
\* without an options argument, throws synchronously: the async function is
\* never started, the file tree is as it was before the call, and no
\* rejection is left unhandled later.
C11_NoCallbackThrowsSynchronously ==
  (call.api = "callback" /\ call.cb = "notfn")
  => (call.pc = "thrown" /\ fsys = call.before /\ ~call.unhandled)

\* The run of request is over: it returned its object, or it rejected.
RequestOver == req.pc \in {"done", "rejected"}

\* Every chunk the body source of the request delivers, in delivery order.
BodyChunks == req.body[1].chunks \o req.body[1].last

\* Once fetch has been called it has been called once; with a body, collect
\* had returned and the source had reported completion before the call, the
\* body handed to fetch is the chunks concatenated, and next() has not been
\* called on the source since; without a body, fetch is handed none.
FetchAfterDrain ==
  req.fetchCalls > 0 =>
    /\ req.fetchCalls = 1
    /\ IF IsSome(req.body)
       THEN /\ col.pc = "done"
            /\ req.nextCallsAtFetch = Len(req.body[1].chunks) + 1
            /\ col.nextCalls = req.nextCallsAtFetch
            /\ col.buffers = BodyChunks
            /\ req.fetchBody = Some(Concat(BodyChunks))
       ELSE /\ req.fetchBody = None
            /\ col.nextCalls = 0

\* C12 as stated: every execution of request makes exactly one call of
\* fetch, made after the body source is drained to completion and handed the
\* one buffer of all the chunks, with no chunk read after it.  As the result
\* of a run that is over: it has made one call of fetch.
C12_ExactlyOneFetchInEveryExecution ==
  /\ FetchAfterDrain
  /\ RequestOver => req.fetchCalls = 1

\* C12, amended: every execution of request ends; one in which draining the
\* body source fails makes no call of fetch, every other makes exactly one,
\* made after the body source is drained to completion and handed the one
\* buffer of all the chunks, with no chunk read after it.
C12_OneFetchUnlessDrainFails ==
  /\ [](FetchAfterDrain)
  /\ [](RequestOver => req.fetchCalls = IF req.drainFailed THEN 0 ELSE 1)
  /\ [](req.drainFailed => IsSome(req.body) /\ req.pc = "rejected")
  /\ <>(RequestOver)

\* A request has returned whose body source delivered an empty chunk, a
\* chunk with bytes, and a chunk together with the completion signal, and
\* whose one call of fetch was handed their bytes.
C12_Witness ==
  /\ req.pc = "done"
  /\ IsSome(req.body)
  /\ Len(req.body[1].chunks) = MaxChunks
  /\ req.body[1].chunks[1] = <<>>
  /\ req.body[1].chunks[MaxChunks] # <<>>
  /\ IsSome(req.body[1].last) /\ req.body[1].last[1] # <<>>
  /\ req.fetchCalls = 1
  /\ req.fetchBody = Some(Concat(BodyChunks))
  /\ Len(req.fetchBody[1]) >= 2
  /\ col.nextCalls = MaxChunks + 1

====
